---- MODULE Spec2Model ----
(***************************************************************************)
(* A model of gitlet-rs: the index (staging area), the commit store, the   *)
(* blob store, the branch refs with the symbolic HEAD, and the working     *)
(* tree, driven by the porcelain operations add, unstage, rm, commit, log, *)
(* branch, switch and merge, and by the user editing files between         *)
(* invocations.                                                            *)
(*                                                                         *)
(* Paths and file contents are sequences of characters.  A SHA-1 digest is *)
(* represented by the exact input that was fed to the hasher (SHA-1 is     *)
(* taken to be collision free on its input); the first two hex characters  *)
(* of a commit hash, which name its shard directory, are represented by    *)
(* Shard.                                                                  *)
(***************************************************************************)
EXTENDS Integers, Sequences, FiniteSets, TLC

VARIABLES
    wt,       \* working tree: path -> content, for the files on disk
    index,    \* .gitlet/index: [exists, additions, removals]
    blobs,    \* .gitlet/blobs: digest -> compressed object
    commits,  \* .gitlet/commits: hash -> serialized commit record
    refs,     \* .gitlet/refs: branch name -> commit hash
    head,     \* .gitlet/HEAD: the name of the branch checked out
    last      \* the last invocation: operation, argument, outcome

vars == <<wt, index, blobs, commits, refs, head, last>>

----------------------------------------------------------------------------
(* Bounds of the model. *)

MaxTime == 1
MaxCommits == 2
NumShards == 4

Paths == { <<"a">>, <<"a", " ", "b">> }
Contents == { <<"x">>, <<"y">>, <<"x", "\n">> }

(* The files the user writes, as <<path, content>>: two versions of one   *)
(* file beside a second file, whose name holds a blank.                   *)
Writes == { <<p, c>> \in Paths \X Contents :
              c # <<"x", "\n">> /\ (p = <<"a">> \/ c = <<"x">>) }

(* One file, two of whose versions differ in a line terminator alone. *)
WritesEol == { <<p, c>> \in Paths \X Contents : p = <<"a">> }

(* The contents with the empty file among them. *)
Bytes == Contents \cup { <<>> }

(* Any file holding any of these contents. *)
WritesBytes == Paths \X Bytes

(* One file of two versions. *)
WritesOne == { <<p, c>> \in Paths \X Contents : p = <<"a">> /\ c # <<"x", "\n">> }

(* Two files of two versions each. *)
WritesTwo == { <<p, c>> \in Paths \X Contents : c # <<"x", "\n">> }
Branches == { "main", "dev" }
Messages == { "m" }
Timestamps == 1..MaxTime

(* Two readings of the clock, well apart. *)
Clock == { MaxTime, MaxTime + 3 }

(* The names merge is given: the branches and one that is none. *)
MergeTargets == Branches \cup { "topic" }

(* The message merge generates. *)
MergeMessage == "merged"

----------------------------------------------------------------------------
(* Finite maps. *)

EmptyMap == [k \in {} |-> k]

Put(f, k, v) == [x \in (DOMAIN f) \cup {k} |-> IF x = k THEN v ELSE f[x]]

Del(f, k) == [x \in (DOMAIN f) \ {k} |-> f[x]]

DelAll(f, ks) == [x \in (DOMAIN f) \ ks |-> f[x]]

(* The empty string: the hash of the virtual commit before the first one. *)
NoHash == <<>>

----------------------------------------------------------------------------
(* Blobs. *)

(* BufRead::lines: the text with every line terminator ("\n", or "\r\n")  *)
(* taken out, which is all that Blob::new feeds to the hasher.            *)
RECURSIVE LinesConcat(_, _)
LinesConcat(c, i) ==
    IF i > Len(c) THEN <<>>
    ELSE IF c[i] = "\n" THEN LinesConcat(c, i + 1)
    ELSE IF c[i] = "\r" /\ i < Len(c) /\ c[i + 1] = "\n" THEN LinesConcat(c, i + 1)
    ELSE <<c[i]>> \o LinesConcat(c, i + 1)

(* Blob::new on a file holding content c: the digest of the file. *)
Blob_new(c) == LinesConcat(c, 1)

Compress(c) == <<"zlib", c>>

Decompress(z) == z[2]

(* Blob::write_blob(path): the compressed bytes of the file, written      *)
(* under the blob's digest whatever was there.                            *)
write_blob(store, digest, c) == Put(store, digest, Compress(c))

(* Blob::read_blob(path) into the file p of tree. The object is opened    *)
(* for reading and the destination is created, which empties it; the      *)
(* copy then reads from the destination, a file open for writing only,    *)
(* and fails, nothing having been written.                                *)
read_blob(store, digest, tree, p) ==
    IF digest \notin DOMAIN store
    THEN [res |-> "ObjectNotFound", wt |-> tree, store |-> store]
    ELSE [res |-> "IoError", wt |-> Put(tree, p, <<>>), store |-> store]

(* blob.save(path): writes the compressed file under the blob's digest. *)
Blob_save(store, digest, c) == Put(store, digest, Compress(c))

(* blob.restore(path): the content written to the destination. *)
Blob_restore(store, digest) == Decompress(store[digest])

(* blob.delete(): removes the object from the store. *)
Blob_delete(store, digest) == Del(store, digest)

(* blob.hash_same_as_other_file(path) for a file holding content c. *)
hash_same_as_other_file(digest, c) == Blob_new(c) = digest

----------------------------------------------------------------------------
(* Commits. *)

VirtualCommit ==
    [hash |-> NoHash, parent |-> NoHash, merge_parent |-> NoHash,
     message |-> "", timestamp |-> 0, blobs |-> EmptyMap]

(* serde_json::to_writer of a Commit: an object of six members, the blobs *)
(* member an object of path: {"hash": digest} members.                    *)
Serialize(c) ==
    <<c.hash, c.parent, c.merge_parent, c.message, c.timestamp,
      { <<p, c.blobs[p]>> : p \in DOMAIN c.blobs }>>

(* A reader that takes the two parent fields in the other order. *)
Deserialize_swapped(j) ==
    [hash |-> j[1], parent |-> j[3], merge_parent |-> j[2],
     message |-> j[4], timestamp |-> j[5],
     blobs |-> [p \in { e[1] : e \in j[6] } |->
                   (CHOOSE e \in j[6] : e[1] = p)[2]]]

(* serde_json::from_str into a Commit. *)
Deserialize(j) ==
    [hash |-> j[1], parent |-> j[2], merge_parent |-> j[3],
     message |-> j[4], timestamp |-> j[5],
     blobs |-> [p \in { e[1] : e \in j[6] } |->
                   (CHOOSE e \in j[6] : e[1] = p)[2]]]

(* The SHA-1 of parent, merge parent, message and timestamp. *)
CommitHash(parent, merge_parent, message, timestamp) ==
    <<parent, merge_parent, message, timestamp>>

(* The number of commits hashed into h, itself included. *)
RECURSIVE Depth(_)
Depth(h) == IF h = NoHash THEN 0 ELSE 1 + Depth(h[1]) + Depth(h[2])

(* The shard directory of a hash: its first two hex characters, which a   *)
(* fixed function of the hashed input stands for.                         *)
Shard(h) == (h[4] + Depth(h)) % NumShards

(* A commit file that is no JSON text of a Commit: an empty file. *)
Malformed == <<>>

(* A load that takes a commit file it cannot read for the virtual commit. *)
Commit_load_lenient(store, h) ==
    IF h \in DOMAIN store /\ store[h] # Malformed
    THEN [ok |-> TRUE, commit |-> Deserialize(store[h])]
    ELSE [ok |-> TRUE, commit |-> VirtualCommit]

(* Commit::load: the result and whether it is Ok. *)
Commit_load(store, h) ==
    IF h = NoHash THEN [ok |-> TRUE, commit |-> VirtualCommit]
    ELSE IF h \in DOMAIN store /\ store[h] # Malformed
         THEN [ok |-> TRUE, commit |-> Deserialize(store[h])]
         ELSE [ok |-> FALSE, commit |-> VirtualCommit]

(* get_commit_blobs *)
get_commit_blobs(store, h) ==
    LET l == Commit_load(store, h) IN [ok |-> l.ok, blobs |-> l.commit.blobs]

(* Whether fs::create_dir of the shard directory of h succeeds. *)
ShardDirExists(store, h) == \E g \in DOMAIN store : Shard(g) = Shard(h)

(* A save that makes the shard directory if it is missing and writes the  *)
(* commit file over whatever is there.                                    *)
Commit_save_over(store, c) ==
    [ok |-> TRUE, store |-> Put(store, c.hash, Serialize(c))]

(* Commit::save: fails when the shard directory exists already. *)
Commit_save(store, c) ==
    IF ShardDirExists(store, c.hash)
    THEN [ok |-> FALSE, store |-> store]
    ELSE [ok |-> TRUE, store |-> Put(store, c.hash, Serialize(c))]

----------------------------------------------------------------------------
(* The index. *)

EmptyIndex == [exists |-> TRUE, additions |-> EmptyMap, removals |-> {}]

NoIndex == [exists |-> FALSE, additions |-> EmptyMap, removals |-> {}]

(* Index::load: an absent index file is created holding the empty index. *)
Index_load(ix) == IF ix.exists THEN ix ELSE EmptyIndex

(* An index that is never taken for clear. *)
is_never_clear(ix) == FALSE

(* Index::is_clear *)
is_clear(ix) == DOMAIN ix.additions = {} /\ ix.removals = {}

(* The index file left as it is. *)
keep_index(ix) == ix

(* clear_index: deletes the index file. *)
clear_index(ix) == NoIndex

(* A stage that leaves the path among the removals. *)
stage_keeping_removal(ix, p, digest) ==
    [ix EXCEPT !.additions = Put(@, p, digest)]

(* Index::stage, once the blob is written. *)
stage(ix, p, digest) ==
    [ix EXCEPT !.removals = @ \ {p}, !.additions = Put(@, p, digest)]

----------------------------------------------------------------------------
(* Refs. *)

(* read_head_hash *)
read_head_hash == refs[head]

(* The hash written to every ref file. *)
update_every_ref(r, h) == [b \in DOMAIN r |-> h]

(* update_head: writes the hash to the ref of the branch HEAD names. *)
update_head(r, h) == Put(r, head, h)

(* A HEAD that tracks nothing. *)
never_tracked(p) == FALSE

(* A HEAD that tracks every path. *)
always_tracked(p) == TRUE

(* is_tracked_by_head: false when the HEAD commit does not load. *)
is_tracked_by_head(p) ==
    LET l == Commit_load(commits, read_head_hash)
    IN  l.ok /\ p \in DOMAIN l.commit.blobs

----------------------------------------------------------------------------
(* What an invocation reports: the command, its argument, how it ended,   *)
(* the paths it printed as conflicts, whether it returned an error (main  *)
(* then prints it on standard error and exits non-zero), and the commits  *)
(* it printed.                                                            *)
Outcome(op, arg, res, conflicts) ==
    [op |-> op, arg |-> arg, res |-> res, conflicts |-> conflicts,
     err |-> res # "ok", out |-> <<>>]

(* An invocation that prints a message on standard output and returns     *)
(* Ok(()) without doing anything.                                         *)
Notice(op, arg, res) ==
    [op |-> op, arg |-> arg, res |-> res, conflicts |-> {}, err |-> FALSE,
     out |-> <<>>]

(* No invocation is running: the last one has exited. *)
Idle == Outcome("idle", <<>>, "ok", {})

(* The places at which a commit under way stands between two of its      *)
(* writes, named by the call that comes next.                             *)
CommitSteps == { "at update_head", "at save", "at clear_index" }

(* The place at which a log under way stands: before the next call of    *)
(* the iterator.                                                          *)
LogSteps == { "at next" }

(* A log under way: the iterator and the commits printed so far. *)
Walking(it, printed) ==
    [op |-> "log", arg |-> it, res |-> "at next", conflicts |-> {},
     err |-> FALSE, out |-> printed]

(* An invocation under way: the command, its argument, the call it stands *)
(* before and the commit it holds in memory.                              *)
At(op, arg, step, pending) ==
    [op |-> op, arg |-> arg, res |-> step, conflicts |-> {}, err |-> FALSE,
     out |-> <<pending>>]

Init ==
    /\ wt = EmptyMap
    /\ index = NoIndex
    /\ blobs = EmptyMap
    /\ commits = EmptyMap
    /\ refs = [b \in {"main"} |-> NoHash]
    /\ head = "main"
    /\ last = Idle

(* The user writes a file of the working tree. *)
WriteFile(p, c) ==
    /\ last = Idle
    /\ ~(p \in DOMAIN wt /\ wt[p] = c)
    /\ wt' = Put(wt, p, c)
    /\ UNCHANGED <<index, blobs, commits, refs, head, last>>

(* The user deletes a file of the working tree. *)
DeleteFile(p) ==
    /\ last = Idle
    /\ p \in DOMAIN wt
    /\ wt' = Del(wt, p)
    /\ UNCHANGED <<index, blobs, commits, refs, head, last>>

(* The invocation exits; each command runs as a process of its own. *)
Exit ==
    /\ last # Idle
    /\ last.res \notin CommitSteps \cup LogSteps
    /\ last' = Idle
    /\ UNCHANGED <<wt, index, blobs, commits, refs, head>>

(* index::action(IndexAction::Add, p) *)
Add(p) ==
    LET ix == Index_load(index) IN
    /\ last = Idle
    /\ IF p \notin DOMAIN wt
       THEN /\ index' = ix
            /\ blobs' = blobs
            /\ last' = Outcome("add", p, "FileNotFound", {})
       ELSE LET digest == Blob_new(wt[p]) IN
            /\ blobs' = Blob_save(blobs, digest, wt[p])
            /\ index' = stage(ix, p, digest)
            /\ last' = Outcome("add", p, "ok", {})
    /\ UNCHANGED <<wt, commits, refs, head>>

(* index::action(IndexAction::Unstage, p) *)
Unstage(p) ==
    LET ix == Index_load(index) IN
    /\ last = Idle
    /\ IF p \notin DOMAIN wt
       THEN /\ index' = ix
            /\ last' = Outcome("unstage", p, "FileNotFound", {})
       ELSE /\ index' = [ix EXCEPT !.additions = Del(@, p),
                                   !.removals = @ \ {p}]
            /\ last' = Outcome("unstage", p, "ok", {})
    /\ UNCHANGED <<wt, blobs, commits, refs, head>>

(* index::rm_deleted: rm of a path that is not on disk. *)
rm_deleted(p) ==
    LET ix == Index_load(index) IN
    /\ IF p \notin DOMAIN ix.additions /\ ~is_tracked_by_head(p)
       THEN /\ index' = ix
            /\ last' = Outcome("rm", p, "NotTracked", {})
       ELSE IF p \notin ix.removals /\ is_tracked_by_head(p)
       THEN /\ index' = [ix EXCEPT !.removals = @ \cup {p}]
            /\ last' = Outcome("rm", p, "ok", {})
       ELSE IF p \in DOMAIN ix.additions
       THEN /\ index' = [ix EXCEPT !.additions = Del(@, p)]
            /\ last' = Outcome("rm", p, "ok", {})
       ELSE /\ index' = ix
            /\ last' = Outcome("rm", p, "AlreadyStaged", {})
    /\ UNCHANGED <<wt, blobs, commits, refs, head>>

(* index::rm for a path that is on disk. *)
rm_on_disk(cached, p) ==
    LET ix == Index_load(index)
        tracked == is_tracked_by_head(p)
        op == IF cached THEN "rm --cached" ELSE "rm"
        (* staged for removal only if the current commit tracks it *)
        removed(i) == IF tracked THEN [i EXCEPT !.removals = @ \cup {p}] ELSE i
    IN
    /\ IF p \notin DOMAIN ix.additions /\ ~tracked
       THEN /\ index' = ix
            /\ UNCHANGED <<wt, blobs>>
            /\ last' = Notice(op, p, "NotTracked")
       ELSE IF cached
       THEN IF p \in DOMAIN ix.additions
            THEN (* the blob deleted is that of the file as it is now *)
                 LET digest == Blob_new(wt[p]) IN
                 /\ blobs' = Blob_delete(blobs, digest)
                 /\ index' = removed([ix EXCEPT !.additions = Del(@, p)])
                 /\ wt' = wt
                 /\ last' = Outcome(op, p, "ok", {})
            ELSE /\ index' = removed(ix)
                 /\ UNCHANGED <<wt, blobs>>
                 /\ last' = Outcome(op, p, "ok", {})
       ELSE IF p \in DOMAIN ix.additions
            THEN /\ index' = ix
                 /\ UNCHANGED <<wt, blobs>>
                 /\ last' = Outcome(op, p, "StagedChangesConflict", {})
            ELSE /\ wt' = Del(wt, p)
                 /\ index' = removed(ix)
                 /\ blobs' = blobs
                 /\ last' = Outcome(op, p, "ok", {})
    /\ UNCHANGED <<commits, refs, head>>

(* An rm that takes every path for one that is absent from disk. *)
Rm_as_deleted(cached, p) ==
    /\ last = Idle
    /\ rm_deleted(p)

(* index::rm(cached, p) *)
Rm(cached, p) ==
    /\ last = Idle
    /\ IF p \notin DOMAIN wt THEN rm_deleted(p) ELSE rm_on_disk(cached, p)

(* A commit that keeps the paths staged for removal. *)
Commit_new_keeping(parent, merge_parent, message, ix, timestamp) ==
    LET pb == IF parent # NoHash
              THEN get_commit_blobs(commits, parent)
              ELSE [ok |-> TRUE, blobs |-> EmptyMap]
        snapshot == [p \in (DOMAIN pb.blobs) \cup (DOMAIN ix.additions) |->
                        IF p \in DOMAIN ix.additions
                        THEN ix.additions[p] ELSE pb.blobs[p]]
    IN  [ok |-> pb.ok,
         commit |-> [hash |-> CommitHash(parent, merge_parent, message, timestamp),
                     parent |-> parent, merge_parent |-> merge_parent,
                     message |-> message, timestamp |-> timestamp,
                     blobs |-> snapshot]]

(* Commit::new: the snapshot and the hash of the new commit. *)
Commit_new(parent, merge_parent, message, ix, timestamp) ==
    LET pb == IF parent # NoHash
              THEN get_commit_blobs(commits, parent)
              ELSE [ok |-> TRUE, blobs |-> EmptyMap]
        kept == DelAll(pb.blobs, ix.removals)
        snapshot == [p \in (DOMAIN kept) \cup (DOMAIN ix.additions) |->
                        IF p \in DOMAIN ix.additions
                        THEN ix.additions[p] ELSE kept[p]]
    IN  [ok |-> pb.ok,
         commit |-> [hash |-> CommitHash(parent, merge_parent, message, timestamp),
                     parent |-> parent, merge_parent |-> merge_parent,
                     message |-> message, timestamp |-> timestamp,
                     blobs |-> snapshot]]

(* repo::commit(message), run when the clock reads timestamp. *)
Commit(message, timestamp) ==
    LET ix == Index_load(index) IN
    /\ last = Idle
    /\ is_clear(ix) \/ Cardinality(DOMAIN commits) < MaxCommits
    /\ IF is_clear(ix)
       THEN /\ index' = ix
            /\ UNCHANGED <<commits, refs>>
            /\ last' = Notice("commit", message, "NothingToCommit")
       ELSE LET parent_hash == read_head_hash
                new == Commit_new(parent_hash, NoHash, message, ix, timestamp)
            IN  IF ~new.ok
                THEN /\ index' = ix
                     /\ UNCHANGED <<commits, refs>>
                     /\ last' = Outcome("commit", message, "ObjectNotFound", {})
                ELSE LET saved == Commit_save(commits, new.commit) IN
                     /\ refs' = update_head(refs, new.commit.hash)
                     /\ commits' = saved.store
                     /\ index' = IF saved.ok THEN clear_index(ix) ELSE ix
                     /\ last' = Outcome("commit", message,
                                        IF saved.ok THEN "ok" ELSE "IoError", {})
    /\ UNCHANGED <<wt, blobs, head>>

(* A branch created with an empty ref, whatever the current branch holds. *)
create_branch_empty(b) ==
    IF b \in DOMAIN refs
    THEN [ok |-> FALSE, refs |-> refs]
    ELSE [ok |-> TRUE, refs |-> Put(refs, b, NoHash)]

(* repo::commit(message) write by write. First, up to Commit::new: the    *)
(* index is loaded and the commit is built in memory.                     *)
CommitStart(message, timestamp) ==
    LET ix == Index_load(index) IN
    /\ last = Idle
    /\ is_clear(ix) \/ Cardinality(DOMAIN commits) < MaxCommits
    /\ index' = ix
    /\ IF is_clear(ix)
       THEN last' = Notice("commit", message, "NothingToCommit")
       ELSE LET new == Commit_new(read_head_hash, NoHash, message, ix, timestamp)
            IN  IF ~new.ok
                THEN last' = Outcome("commit", message, "ObjectNotFound", {})
                ELSE last' = At("commit", message, "at update_head", new.commit)
    /\ UNCHANGED <<wt, blobs, commits, refs, head>>

(* update_head(&new_commit.hash) *)
CommitUpdateHead ==
    /\ last.res = "at update_head"
    /\ refs' = update_head(refs, last.out[1].hash)
    /\ last' = [last EXCEPT !.res = "at save"]
    /\ UNCHANGED <<wt, index, blobs, commits, head>>

(* new_commit.save()?: an error ends the invocation here. *)
CommitSave ==
    LET saved == Commit_save(commits, last.out[1]) IN
    /\ last.res = "at save"
    /\ commits' = saved.store
    /\ last' = IF saved.ok
               THEN [last EXCEPT !.res = "at clear_index"]
               ELSE Outcome("commit", last.arg, "IoError", {})
    /\ UNCHANGED <<wt, index, blobs, refs, head>>

(* index::clear_index() *)
CommitClearIndex ==
    /\ last.res = "at clear_index"
    /\ index' = clear_index(index)
    /\ last' = Outcome("commit", last.arg, "ok", {})
    /\ UNCHANGED <<wt, blobs, commits, refs, head>>

(* create_branch: the refs afterwards, and whether it is Ok. *)
create_branch(b) ==
    IF b \in DOMAIN refs
    THEN [ok |-> FALSE, refs |-> refs]
    ELSE [ok |-> TRUE, refs |-> Put(refs, b, read_head_hash)]

(* repo::branch(Some(b), false) *)
BranchCreate(b) ==
    LET r == create_branch(b) IN
    /\ last = Idle
    /\ refs' = r.refs
    /\ last' = Outcome("branch", b, IF r.ok THEN "ok" ELSE "BranchExists", {})
    /\ UNCHANGED <<wt, index, blobs, commits, head>>

(* A delete that does not look whether the ref exists. *)
BranchDelete_unchecked(b) ==
    /\ last = Idle
    /\ IF b = head
       THEN /\ refs' = refs
            /\ last' = Outcome("branch -D", b, "BranchCheckedOut", {})
       ELSE /\ refs' = Del(refs, b)
            /\ last' = Outcome("branch -D", b, "ok", {})
    /\ UNCHANGED <<wt, index, blobs, commits, head>>

(* A delete that does not look whether the branch is checked out. *)
BranchDelete_checked_out(b) ==
    /\ last = Idle
    /\ IF b \notin DOMAIN refs
       THEN /\ refs' = refs
            /\ last' = Outcome("branch -D", b, "BranchNotFound", {})
       ELSE /\ refs' = Del(refs, b)
            /\ last' = Outcome("branch -D", b, "ok", {})
    /\ UNCHANGED <<wt, index, blobs, commits, head>>

(* repo::branch(Some(b), true): delete_branch *)
BranchDelete(b) ==
    /\ last = Idle
    /\ IF b = head
       THEN /\ refs' = refs
            /\ last' = Outcome("branch -D", b, "BranchCheckedOut", {})
       ELSE IF b \notin DOMAIN refs
       THEN /\ refs' = refs
            /\ last' = Outcome("branch -D", b, "BranchNotFound", {})
       ELSE /\ refs' = Del(refs, b)
            /\ last' = Outcome("branch -D", b, "ok", {})
    /\ UNCHANGED <<wt, index, blobs, commits, head>>

----------------------------------------------------------------------------
(* Checkout. *)

IsSpace(ch) == ch \in {" ", "\t", "\n", "\r"}

(* str::split_whitespace().next(): the first maximal run of characters    *)
(* that are not white space.                                              *)
RECURSIVE WordFrom(_, _)
WordFrom(s, i) ==
    IF i > Len(s) \/ IsSpace(s[i]) THEN <<>> ELSE <<s[i]>> \o WordFrom(s, i + 1)

RECURSIVE FirstWord(_, _)
FirstWord(s, i) ==
    IF i > Len(s) THEN <<>>
    ELSE IF IsSpace(s[i]) THEN FirstWord(s, i + 1)
    ELSE WordFrom(s, i)

(* The mark pushed after the name of a deleted file: " (deleted)". *)
DeletedMark == <<" ", "(deleted)">>

(* unstaged_modifications: the names of the files that are tracked, by    *)
(* HEAD or by the index, and changed or deleted since, the deleted ones   *)
(* marked. It fails when the HEAD commit does not load.                   *)
unstaged_modifications(ix) ==
    LET working_files == DOMAIN wt
        hb == get_commit_blobs(commits, read_head_hash)
        of_head ==
            { f \o DeletedMark : f \in { g \in DOMAIN hb.blobs :
                  g \notin working_files /\ g \notin ix.removals } }
            \cup
            { f \in DOMAIN hb.blobs :
                  /\ f \in working_files
                  /\ \/ /\ f \in DOMAIN ix.additions
                        /\ ~hash_same_as_other_file(ix.additions[f], wt[f])
                     \/ /\ f \notin DOMAIN ix.additions
                        /\ ~hash_same_as_other_file(hb.blobs[f], wt[f]) }
        staged_new == { f \in DOMAIN ix.additions : ~is_tracked_by_head(f) }
        of_index ==
            { f \o DeletedMark : f \in { g \in staged_new : g \notin working_files } }
            \cup
            { f \in staged_new :
                  /\ f \in working_files
                  /\ ~hash_same_as_other_file(ix.additions[f], wt[f]) }
    IN  [ok |-> hb.ok, names |-> of_head \cup of_index]

(* file_differs_between_commits *)
file_differs_between_commits(f, src, dst) ==
    f \in DOMAIN src /\ f \in DOMAIN dst /\ src[f] # dst[f]

(* A detection that stops at the first conflict it meets. *)
detect_first_conflict(touched, src, dst) ==
    LET all == { f \in touched : file_differs_between_commits(f, src, dst) }
    IN  IF all = {} THEN {} ELSE { CHOOSE f \in all : TRUE }

(* The conflicts checkout_commit collects: every touched path that the two *)
(* commits track differently.                                             *)
detect_conflicts(touched, src, dst) ==
    { f \in touched : file_differs_between_commits(f, src, dst) }

(* A restore loop that writes no file. *)
Restored_none(tree, dst, S) == tree

(* The working tree with the files of S restored from the blobs of dst. *)
Restored(tree, dst, S) ==
    [f \in (DOMAIN tree) \cup S |->
        IF f \in S THEN Blob_restore(blobs, dst[f]) ELSE tree[f]]

(* checkout_commit(hash): every way it can end, as the outcome, the       *)
(* working tree and the index file it leaves. The two loops that change   *)
(* the working tree run over hash maps, in an order that is not           *)
(* specified, and stop at the first file that fails.                      *)
checkout_commit(hash) ==
    LET srcL == get_commit_blobs(commits, read_head_hash)
        dstL == get_commit_blobs(commits, hash)
        src == srcL.blobs
        dst == dstL.blobs
        ix == Index_load(index)
        unstaged == unstaged_modifications(ix)
        touched == { FirstWord(n, 1) : n \in unstaged.names }
                     \cup (DOMAIN ix.additions) \cup ix.removals
        conflicts == detect_conflicts(touched, src, dst)
        modified_tracked_files == touched \ conflicts
        to_delete == { f \in DOMAIN src :
                         f \notin modified_tracked_files /\ f \notin DOMAIN dst }
        to_restore == { f \in DOMAIN dst :
                          /\ f \notin modified_tracked_files
                          /\ ~(f \in DOMAIN src /\ src[f] = dst[f]) }
        deleted == DelAll(wt, to_delete)
    IN  IF ~srcL.ok \/ ~dstL.ok
        THEN { [res |-> "ObjectNotFound", conflicts |-> {}, wt |-> wt, index |-> index] }
        ELSE IF conflicts # {}
        THEN { [res |-> "CheckoutConflict", conflicts |-> conflicts,
                wt |-> wt, index |-> ix] }
        ELSE IF to_delete \ DOMAIN wt # {}
        THEN { [res |-> "IoError", conflicts |-> {},
                wt |-> DelAll(wt, S), index |-> ix] :
               S \in SUBSET (to_delete \cap DOMAIN wt) }
        ELSE IF \E f \in to_restore : dst[f] \notin DOMAIN blobs
        THEN { [res |-> "ObjectNotFound", conflicts |-> {},
                wt |-> Restored(deleted, dst, S), index |-> ix] :
               S \in SUBSET { f \in to_restore : dst[f] \in DOMAIN blobs } }
        ELSE { [res |-> "ok", conflicts |-> {},
                wt |-> Restored(deleted, dst, to_restore), index |-> ix] }

(* A checkout that writes HEAD first, however the checkout then ends. *)
checkout_branch_head_first(op, b, r) ==
    \E o \in checkout_commit(r[b]) :
        /\ wt' = o.wt
        /\ index' = o.index
        /\ refs' = r
        /\ head' = b
        /\ last' = Outcome(op, b, o.res, o.conflicts)

(* checkout_branch(b), the refs being r: HEAD is written once the commit  *)
(* is checked out.                                                        *)
checkout_branch(op, b, r) ==
    \E o \in checkout_commit(r[b]) :
        /\ wt' = o.wt
        /\ index' = o.index
        /\ refs' = r
        /\ head' = IF o.res = "ok" THEN b ELSE head
        /\ last' = Outcome(op, b, o.res, o.conflicts)

(* repo::switch(b, create) *)
Switch(b, create) ==
    LET op == IF create THEN "switch -c" ELSE "switch" IN
    /\ last = Idle
    /\ IF b = head
       THEN /\ last' = Notice(op, b, "AlreadyOn")
            /\ UNCHANGED <<wt, index, refs, head>>
       ELSE IF b \in DOMAIN refs
       THEN checkout_branch(op, b, refs)
       ELSE IF create
       THEN checkout_branch(op, b, create_branch(b).refs)
       ELSE /\ last' = Outcome(op, b, "InvalidReference", {})
            /\ UNCHANGED <<wt, index, refs, head>>
    /\ UNCHANGED <<blobs, commits>>

----------------------------------------------------------------------------
(* The log. *)

(* Option<String>: None, or Some(h). *)
None == <<>>

Some(h) == <<h>>

(* A commit taken to have no parents. *)
no_parent_hashes(store, h) == <<None, None>>

(* get_parent_hashes: the parent and the merge parent of h, if any. *)
get_parent_hashes(store, h) ==
    IF h = NoHash THEN <<None, None>>
    ELSE LET l == Commit_load(store, h) IN
         IF ~l.ok THEN <<None, None>>
         ELSE LET c == l.commit IN
              IF c.parent = NoHash /\ c.merge_parent = NoHash
              THEN <<None, None>>
              ELSE IF c.parent = NoHash THEN <<Some(c.merge_parent), None>>
              ELSE IF c.merge_parent = NoHash THEN <<Some(c.parent), None>>
              ELSE <<Some(c.parent), Some(c.merge_parent)>>

(* more_recent_hash: the one of the two commits with the later timestamp, *)
(* the merge side on a tie.                                               *)
more_recent_hash(store, parent, merge) ==
    LET p == Commit_load(store, parent)
        m == Commit_load(store, merge)
    IN  IF p.ok /\ m.ok
        THEN IF p.commit.timestamp > m.commit.timestamp
             THEN Some(p.commit.hash) ELSE Some(m.commit.hash)
        ELSE IF p.ok THEN Some(p.commit.hash)
        ELSE IF m.ok THEN Some(m.commit.hash)
        ELSE None

(* Commit::iter: the iterator placed on the commit of hash h. *)
Commit_iter(store, h) ==
    LET ph == get_parent_hashes(store, h)
    IN  [current_hash |-> Some(h), parent_hash |-> ph[1], merge_hash |-> ph[2]]

(* CommitIter::next: the iterator advanced, and the item it returns. *)
CommitIter_next(store, it) ==
    IF it.current_hash = None THEN [it |-> it, item |-> None]
    ELSE
    LET output == Commit_load(store, it.current_hash[1])
        item == IF output.ok THEN Some(output.commit) ELSE None
        advanced ==
            IF it.parent_hash = None /\ it.merge_hash = None
            THEN [it EXCEPT !.current_hash = None]
            ELSE IF it.parent_hash = None
            THEN LET ph == get_parent_hashes(store, it.merge_hash[1]) IN
                 [current_hash |-> it.merge_hash,
                  parent_hash |-> ph[1], merge_hash |-> ph[2]]
            ELSE IF it.merge_hash = None
            THEN LET ph == get_parent_hashes(store, it.parent_hash[1]) IN
                 [current_hash |-> it.parent_hash,
                  parent_hash |-> ph[1], merge_hash |-> ph[2]]
            ELSE LET parent == it.parent_hash[1]
                     merge == it.merge_hash[1]
                 IN  IF parent = merge
                     THEN LET ph == get_parent_hashes(store, parent) IN
                          [current_hash |-> it.parent_hash,
                           parent_hash |-> ph[1], merge_hash |-> ph[2]]
                     ELSE LET recent == more_recent_hash(store, parent, merge) IN
                          IF recent = None
                          THEN [current_hash |-> None, parent_hash |-> None,
                                merge_hash |-> None]
                          ELSE IF recent[1] = parent
                          THEN [it EXCEPT
                                  !.current_hash = Some(parent),
                                  !.parent_hash = get_parent_hashes(store, parent)[1]]
                          ELSE [it EXCEPT
                                  !.current_hash = Some(merge),
                                  !.merge_hash = get_parent_hashes(store, merge)[1]]
    IN  [it |-> advanced, item |-> item]

(* The commits a for loop over the iterator gets, until next returns None. *)
RECURSIVE iterate(_, _)
iterate(store, it) ==
    LET n == CommitIter_next(store, it)
    IN  IF n.item = None THEN <<>> ELSE <<n.item[1]>> \o iterate(store, n.it)

(* repo::log: prints the commits of the history of HEAD. *)
Log ==
    LET l == Commit_load(commits, read_head_hash) IN
    /\ last = Idle
    /\ IF ~l.ok
       THEN last' = Outcome("log", <<>>, "ObjectNotFound", {})
       ELSE last' = [Outcome("log", <<>>, "ok", {}) EXCEPT
                        !.out = iterate(commits, Commit_iter(commits, l.commit.hash))]
    /\ UNCHANGED <<wt, index, blobs, commits, refs, head>>

(* repo::log one call of the iterator at a time. First, the head commit   *)
(* is loaded and the iterator is placed on it.                            *)
LogStart ==
    LET l == Commit_load(commits, read_head_hash) IN
    /\ last = Idle
    /\ IF ~l.ok
       THEN last' = Outcome("log", <<>>, "ObjectNotFound", {})
       ELSE last' = Walking(Commit_iter(commits, l.commit.hash), <<>>)
    /\ UNCHANGED <<wt, index, blobs, commits, refs, head>>

(* One turn of the for loop: the item is printed, or the loop ends when   *)
(* next returns None.                                                     *)
LogNext ==
    LET n == CommitIter_next(commits, last.arg) IN
    /\ last.res = "at next"
    /\ IF n.item = None
       THEN last' = [Outcome("log", <<>>, "ok", {}) EXCEPT !.out = last.out]
       ELSE last' = Walking(n.it, Append(last.out, n.item[1]))
    /\ UNCHANGED <<wt, index, blobs, commits, refs, head>>

----------------------------------------------------------------------------
(* Merge. *)

(* The ancestry walk from h: the commits the iterator yields. *)
walk_from(store, h) == iterate(store, Commit_iter(store, h))

(* The hashes of the commits of a walk: the reachable set. *)
Reach(walk) == { walk[i].hash : i \in 1..Len(walk) }

(* mergeBase: the most recent commit of the walk from HEAD that the walk  *)
(* from the target yields too, if there is one.                           *)
merge_base(head_walk, target_walk) ==
    LET common == { i \in 1..Len(head_walk) :
                      head_walk[i].hash \in Reach(target_walk) }
    IN  IF common = {} THEN None
        ELSE Some(head_walk[CHOOSE i \in common : \A j \in common : i <= j].hash)

(* The version a snapshot holds of a path: its digest, or none. *)
Version(snapshot, p) ==
    IF p \in DOMAIN snapshot THEN Some(snapshot[p]) ELSE None

(* A merge that takes the other side wherever the two sides differ. *)
three_way_theirs(a, h, t) ==
    IF h = a /\ t = a THEN "keep"
    ELSE IF h = t THEN "ours"
    ELSE "theirs"

(* A merge that keeps the side of HEAD wherever the target has changed. *)
three_way_ours(a, h, t) ==
    IF h = a /\ t = a THEN "keep" ELSE "ours"

(* The three-way rule for one path, from its versions in the ancestor, in *)
(* HEAD and in the target: unchanged in both, changed on one side, changed *)
(* alike on both, or changed differently on both.                         *)
three_way(a, h, t) ==
    IF h = a /\ t = a THEN "keep"
    ELSE IF h = a THEN "theirs"
    ELSE IF t = a THEN "ours"
    ELSE IF h = t THEN "ours"
    ELSE "conflict"

(* A commit hash as the text written into a file. *)
RECURSIVE Hex(_)
Hex(h) ==
    IF h = NoHash THEN <<"-">>
    ELSE <<"(">> \o Hex(h[1]) \o Hex(h[2]) \o <<h[3], ToString(h[4]), ")">>

(* The file written for a conflict: the content of HEAD's version and of  *)
(* the other version between the markers, the last naming the target.     *)
conflict_content(head_content, other_content, target) ==
    <<"<<<<<<< HEAD", "\n">> \o head_content
        \o <<"\n", "=======", "\n">> \o other_content
        \o <<"\n", ">>>>>>> ">> \o Hex(target) \o <<"\n">>

(* The content of a version: of its blob, or empty when there is none. *)
content_of(store, v) == IF v = None THEN <<>> ELSE Blob_restore(store, v[1])

(* A merge that checks the index before the working tree. *)
merge_refusal_index_first(b, ix) ==
    LET unstaged == unstaged_modifications(ix) IN
    IF b \notin DOMAIN refs THEN "BranchNotFound"
    ELSE IF b = head THEN "SelfMerge"
    ELSE IF ~unstaged.ok THEN "ObjectNotFound"
    ELSE IF ~is_clear(ix) THEN "UncommittedChanges"
    ELSE IF unstaged.names # {} THEN "UnstagedChanges"
    ELSE "none"

(* The preconditions of merge, in the order they are checked: the first   *)
(* that fails, or none.                                                   *)
merge_refusal(b, ix) ==
    LET unstaged == unstaged_modifications(ix) IN
    IF b \notin DOMAIN refs THEN "BranchNotFound"
    ELSE IF b = head THEN "SelfMerge"
    ELSE IF ~unstaged.ok THEN "ObjectNotFound"
    ELSE IF unstaged.names # {} THEN "UnstagedChanges"
    ELSE IF ~is_clear(ix) THEN "UncommittedChanges"
    ELSE "none"

(* A fast-forward that leaves the ref where it was. *)
fast_forward_keeping_ref(b) ==
    \E o \in checkout_commit(refs[b]) :
        /\ wt' = o.wt
        /\ index' = o.index
        /\ refs' = refs
        /\ last' = IF o.res = "ok" THEN Notice("merge", b, "FastForward")
                   ELSE Outcome("merge", b, o.res, o.conflicts)
        /\ UNCHANGED <<blobs, commits, head>>

(* The fast-forward: the target is checked out over the current commit    *)
(* and the ref of the current branch is moved to it.                      *)
fast_forward(b) ==
    \E o \in checkout_commit(refs[b]) :
        /\ wt' = o.wt
        /\ index' = o.index
        /\ refs' = IF o.res = "ok" THEN update_head(refs, refs[b]) ELSE refs
        /\ last' = IF o.res = "ok" THEN Notice("merge", b, "FastForward")
                   ELSE Outcome("merge", b, o.res, o.conflicts)
        /\ UNCHANGED <<blobs, commits, head>>

(* The three-way merge of the target tip into the current commit, from    *)
(* their merge base.                                                      *)
merge_three_way(b, ix, base, timestamp) ==
    LET cur == refs[head]
        tip == refs[b]
        as == get_commit_blobs(commits, base).blobs
        hs == get_commit_blobs(commits, cur).blobs
        ts == get_commit_blobs(commits, tip).blobs
        rule(p) == three_way(Version(as, p), Version(hs, p), Version(ts, p))
        paths == (DOMAIN as) \cup (DOMAIN hs) \cup (DOMAIN ts)
        theirs == { p \in paths : rule(p) = "theirs" }
        conflicts == { p \in paths : rule(p) = "conflict" }
        needed == { ts[p] : p \in (theirs \cup conflicts) \cap DOMAIN ts }
                    \cup { hs[p] : p \in conflicts \cap DOMAIN hs }
        merged(p) ==
            IF p \in conflicts
            THEN conflict_content(content_of(blobs, Version(hs, p)),
                                  content_of(blobs, Version(ts, p)), tip)
            ELSE Blob_restore(blobs, ts[p])
        written == (theirs \cap DOMAIN ts) \cup conflicts
        wt1 == [p \in ((DOMAIN wt) \ theirs) \cup written |->
                   IF p \in written THEN merged(p) ELSE wt[p]]
        ix1 == [ix EXCEPT
                  !.additions = [p \in theirs \cap DOMAIN ts |-> ts[p]],
                  !.removals = theirs \ DOMAIN ts]
        new == Commit_new(cur, tip, MergeMessage, ix1, timestamp)
        saved == Commit_save(commits, new.commit)
    IN  IF ~(needed \subseteq DOMAIN blobs)
        THEN /\ index' = ix
             /\ last' = Outcome("merge", b, "ObjectNotFound", {})
             /\ UNCHANGED <<wt, blobs, commits, refs, head>>
        ELSE IF conflicts # {}
        THEN /\ wt' = wt1
             /\ index' = ix1
             /\ last' = [Notice("merge", b, "Conflict") EXCEPT
                            !.conflicts = conflicts]
             /\ UNCHANGED <<blobs, commits, refs, head>>
        ELSE /\ wt' = wt1
             /\ commits' = saved.store
             /\ refs' = IF saved.ok THEN update_head(refs, new.commit.hash) ELSE refs
             /\ index' = IF saved.ok THEN clear_index(ix1) ELSE ix1
             /\ last' = Outcome("merge", b, IF saved.ok THEN "ok" ELSE "IoError", {})
             /\ UNCHANGED <<blobs, head>>

(* The merge of diverged histories, from their merge base if any. *)
merge_diverged(b, ix, base, timestamp) ==
    IF base = None
    THEN /\ index' = ix
         /\ last' = Outcome("merge", b, "NoMergeBase", {})
         /\ UNCHANGED <<wt, blobs, commits, refs, head>>
    ELSE merge_three_way(b, ix, base[1], timestamp)

(* merge past its preconditions, by where the two tips stand in the walks *)
(* from each other: nothing to do, a fast-forward, or a three-way merge.  *)
merge_tips(b, ix, head_walk, target_walk, timestamp) ==
    IF refs[b] \in Reach(head_walk)
    THEN /\ index' = ix
         /\ last' = Notice("merge", b, "UpToDate")
         /\ UNCHANGED <<wt, blobs, commits, refs, head>>
    ELSE IF refs[head] \in Reach(target_walk)
    THEN fast_forward(b)
    ELSE merge_diverged(b, ix, merge_base(head_walk, target_walk), timestamp)

(* merge, given the precondition that fails first, if any. *)
merge_checked(b, ix, refusal, timestamp) ==
    IF refusal \in { "BranchNotFound", "SelfMerge" }
    THEN /\ last' = Outcome("merge", b, refusal, {})
         /\ UNCHANGED <<wt, index, blobs, commits, refs, head>>
    ELSE IF refusal # "none"
    THEN /\ index' = ix
         /\ last' = Outcome("merge", b, refusal, {})
         /\ UNCHANGED <<wt, blobs, commits, refs, head>>
    ELSE merge_tips(b, ix, walk_from(commits, refs[head]),
                    walk_from(commits, refs[b]), timestamp)

(* merge(b), run when the clock reads timestamp. *)
Merge(b, timestamp) ==
    /\ last = Idle
    /\ merge_checked(b, Index_load(index),
                     merge_refusal(b, Index_load(index)), timestamp)

----------------------------------------------------------------------------
(* Any invocation, or an edit of the working tree among those of W, the   *)
(* clock reading one of the times of T.                                   *)
NextAt(W, T) ==
    \/ \E e \in W : WriteFile(e[1], e[2])
    \/ \E p \in Paths : DeleteFile(p)
    \/ \E p \in Paths : Add(p)
    \/ \E p \in Paths : Unstage(p)
    \/ \E p \in Paths, cached \in BOOLEAN : Rm(cached, p)
    \/ \E m \in Messages, t \in T : Commit(m, t)
    \/ \E b \in Branches : BranchCreate(b)
    \/ \E b \in Branches : BranchDelete(b)
    \/ \E b \in Branches, create \in BOOLEAN : Switch(b, create)
    \/ Exit

NextOver(W) == NextAt(W, Timestamps)

Next == NextOver(Writes)

Spec == Init /\ [][Next]_vars

NextEol == NextOver(WritesEol)

SpecEol == Init /\ [][NextEol]_vars

(* The repository after: write both files "x"; add both; commit; switch   *)
(* -c dev; write both files "y"; add both; commit; switch main.           *)
RootHash == CommitHash(NoHash, NoHash, "m", 1)

ChildHash == CommitHash(RootHash, NoHash, "m", 1)

InitTwo ==
    /\ wt = [p \in Paths |-> <<"x">>]
    /\ index = EmptyIndex
    /\ blobs = [d \in {<<"x">>, <<"y">>} |-> Compress(d)]
    /\ commits = [h \in {RootHash, ChildHash} |->
                    Serialize([hash |-> h,
                               parent |-> IF h = RootHash THEN NoHash ELSE RootHash,
                               merge_parent |-> NoHash,
                               message |-> "m", timestamp |-> 1,
                               blobs |-> [p \in Paths |->
                                   IF h = RootHash THEN <<"x">> ELSE <<"y">>]])]
    /\ refs = [b \in Branches |-> IF b = "main" THEN RootHash ELSE ChildHash]
    /\ head = "main"
    /\ last = Idle

NextTwo == NextOver(WritesTwo)

SpecTwo == InitTwo /\ [][NextTwo]_vars

(* The staging commands and commit, over two files of two versions each, *)
(* on the one branch of a new repository.                                *)
NextIndex ==
    \/ \E e \in WritesTwo : WriteFile(e[1], e[2])
    \/ \E p \in Paths : DeleteFile(p)
    \/ \E p \in Paths : Add(p)
    \/ \E p \in Paths : Unstage(p)
    \/ \E p \in Paths, cached \in BOOLEAN : Rm(cached, p)
    \/ \E m \in Messages, t \in Timestamps : Commit(m, t)
    \/ Exit

SpecIndex == Init /\ [][NextIndex]_vars

(* Blob::new(p) and then write_blob(p), as the unit test of blob.rs does. *)
WriteBlob(p) ==
    /\ last = Idle
    /\ IF p \notin DOMAIN wt
       THEN /\ blobs' = blobs
            /\ last' = Outcome("write_blob", p, "FileNotFound", {})
       ELSE /\ blobs' = write_blob(blobs, Blob_new(wt[p]), wt[p])
            /\ last' = Outcome("write_blob", p, "ok", {})
    /\ UNCHANGED <<wt, index, commits, refs, head>>

(* read_blob of the object of digest d into the file p. *)
ReadBlob(d, p) ==
    LET r == read_blob(blobs, d, wt, p) IN
    /\ last = Idle
    /\ wt' = r.wt
    /\ blobs' = r.store
    /\ last' = Outcome("read_blob", <<d, p>>, r.res, {})
    /\ UNCHANGED <<index, commits, refs, head>>

(* The object store alone: files written, stored and read back. *)
NextBlob ==
    \/ \E e \in WritesBytes : WriteFile(e[1], e[2])
    \/ \E p \in Paths : WriteBlob(p)
    \/ \E c \in Bytes, p \in Paths : ReadBlob(Blob_new(c), p)
    \/ Exit

SpecBlob == Init /\ [][NextBlob]_vars

(* The invocations over one file of two contents, and the log. *)
NextLog == NextOver(WritesOne) \/ Log

SpecLog == Init /\ [][NextLog]_vars

(* The invocations over one file of two contents, the clock reading one   *)
(* of two seconds: commits of different hashes that fall into the same    *)
(* shard directory are within reach of two commits.                       *)
NextRef == NextAt(WritesOne, Clock)

SpecRef == Init /\ [][NextRef]_vars

(* The same invocations, the commit being taken one write at a time. *)
NextSteps ==
    \/ \E e \in WritesOne : WriteFile(e[1], e[2])
    \/ \E p \in Paths : DeleteFile(p)
    \/ \E p \in Paths : Add(p)
    \/ \E p \in Paths : Unstage(p)
    \/ \E p \in Paths, cached \in BOOLEAN : Rm(cached, p)
    \/ \E m \in Messages, t \in Clock : CommitStart(m, t)
    \/ CommitUpdateHead
    \/ CommitSave
    \/ CommitClearIndex
    \/ \E b \in Branches : BranchCreate(b)
    \/ \E b \in Branches : BranchDelete(b)
    \/ \E b \in Branches, create \in BOOLEAN : Switch(b, create)
    \/ Exit

SpecSteps == Init /\ [][NextSteps]_vars

(* The snapshots a commit can hold: any of the files, in either version. *)
Snapshots ==
    UNION { [D -> { <<"x">>, <<"y">> }] : D \in SUBSET Paths }

(* The second child of the first commit, made on another branch later. *)
OtherHash == CommitHash(RootHash, NoHash, "m", 2)

(* A stored commit without merge parent. *)
Stored(h, parent, timestamp, snapshot) ==
    Serialize([hash |-> h, parent |-> parent, merge_parent |-> NoHash,
               message |-> "m", timestamp |-> timestamp, blobs |-> snapshot])

(* The repository after a first commit on main, a commit on top of it on  *)
(* main and another on top of it on dev, whatever the three snapshots,    *)
(* with main checked out at its second commit or taken back to its first, *)
(* and nothing staged.                                                    *)
InitMerge ==
    \E sb \in { s \in Snapshots : <<"a">> \in DOMAIN s /\ s[<<"a">>] = <<"x">> },
       sl \in Snapshots, sr \in Snapshots,
       tip \in { RootHash, ChildHash } :
        /\ commits = [h \in { RootHash, ChildHash, OtherHash } |->
                         IF h = RootHash THEN Stored(h, NoHash, 1, sb)
                         ELSE IF h = ChildHash THEN Stored(h, RootHash, 1, sl)
                         ELSE Stored(h, RootHash, 2, sr)]
        /\ refs = [b \in Branches |-> IF b = "main" THEN tip ELSE OtherHash]
        /\ head = "main"
        /\ wt = IF tip = RootHash THEN sb ELSE sl
        /\ index = EmptyIndex
        /\ blobs = [d \in { <<"x">>, <<"y">> } |-> Compress(d)]
        /\ last = Idle

(* Merges, switches and the staging of edits of one file. *)
NextMerge ==
    \/ \E e \in WritesOne : WriteFile(e[1], e[2])
    \/ \E p \in Paths : DeleteFile(p)
    \/ \E p \in Paths : Add(p)
    \/ \E b \in Branches, create \in BOOLEAN : Switch(b, create)
    \/ \E b \in MergeTargets, t \in Clock : Merge(b, t)
    \/ Exit

SpecMerge == InitMerge /\ [][NextMerge]_vars

(* The timestamps of the commits of a drawn history. *)
Stamps == 1..(MaxTime + 2)

(* The timestamps of a line of n commits, oldest first: time does not run *)
(* backwards along a line, and two commits may be of the same second.     *)
LineStamps(n) ==
    { s \in [1..n -> Stamps] : \A i \in 1..(n - 1) : s[i] <= s[i + 1] }

(* The hash of the k-th commit of a line made on top of the commit from,  *)
(* its commits carrying the message msg and the timestamps s.             *)
RECURSIVE LineHash(_, _, _, _)
LineHash(from, msg, s, k) ==
    IF k = 0 THEN from
    ELSE CommitHash(LineHash(from, msg, s, k - 1), NoHash, msg, s[k])

(* The commit files of that line. *)
LineFiles(from, msg, s) ==
    [h \in { LineHash(from, msg, s, k) : k \in 1..Len(s) } |->
        Serialize([hash |-> h, parent |-> h[1], merge_parent |-> NoHash,
                   message |-> msg, timestamp |-> h[4], blobs |-> EmptyMap])]

(* The union of two stores of distinct hashes. *)
Both(f, g) == [h \in (DOMAIN f) \cup (DOMAIN g) |-> IF h \in DOMAIN f THEN f[h] ELSE g[h]]

(* A history of one merge: a line of commits from the first one to the    *)
(* point where two branches part, a line on either branch, and the merge  *)
(* commit that joins the two tips at time tm.                             *)
MergeHistory(bs, ls, rs, tm) ==
    LET base == LineHash(NoHash, "m", bs, Len(bs))
        left == LineHash(base, "l", ls, Len(ls))
        right == LineHash(base, "r", rs, Len(rs))
        merged == CommitHash(left, right, MergeMessage, tm)
    IN  Both(Both(LineFiles(NoHash, "m", bs), LineFiles(base, "l", ls)),
             Both(LineFiles(base, "r", rs),
                  [h \in { merged } |->
                      Serialize([hash |-> h, parent |-> left, merge_parent |-> right,
                                 message |-> MergeMessage, timestamp |-> tm,
                                 blobs |-> EmptyMap])]))

(* Every such history within the bounds. *)
MergeHistories ==
    { MergeHistory(x[1], x[2], x[3], x[4]) :
        x \in { y \in (UNION { LineStamps(n) : n \in 1..MaxCommits })
                      \X (UNION { LineStamps(n) : n \in 1..MaxCommits })
                      \X (UNION { LineStamps(n) : n \in 1..MaxCommits })
                      \X Stamps :
                  /\ y[1][Len(y[1])] <= y[2][1]
                  /\ y[1][Len(y[1])] <= y[3][1]
                  /\ y[2][Len(y[2])] <= y[4]
                  /\ y[3][Len(y[3])] <= y[4] } }

(* A store with the commit files of the hashes of S damaged: deleted, or  *)
(* left malformed.                                                        *)
Damaged(store, S, how) ==
    IF how = "deleted" THEN DelAll(store, S)
    ELSE [h \in DOMAIN store |-> IF h \in S THEN Malformed ELSE store[h]]

(* A repository holding a history of one merge, whole or with one commit  *)
(* file damaged, its one branch at any commit of the history.             *)
InitWalk ==
    \E history \in MergeHistories :
    \E start \in DOMAIN history :
    \E S \in { T \in SUBSET (DOMAIN history) : Cardinality(T) <= 1 } :
    \E how \in { "deleted", "malformed" } :
        /\ S = {} => how = "deleted"
        /\ commits = Damaged(history, S, how)
        /\ refs = [b \in { "main" } |-> start]
        /\ head = "main"
        /\ wt = EmptyMap
        /\ index = NoIndex
        /\ blobs = EmptyMap
        /\ last = Idle

(* The log of such a repository, one call of the iterator at a time. *)
NextWalk ==
    \/ LogStart
    \/ LogNext
    \/ Exit

SpecWalk == InitWalk /\ [][NextWalk]_vars

(* The for loop of log goes on as long as it can. *)
SpecWalkLive == SpecWalk /\ WF_vars(LogStart) /\ WF_vars(LogNext)

----------------------------------------------------------------------------
(* The directories of the working tree. Here a path is the sequence of    *)
(* its components, and the working tree is the set of its files together  *)
(* with the set of its directories, the root, the empty path, left out.   *)

(* The files a commit may track, down to two directories deep. *)
TreeFiles == { <<"f">>, <<"d", "f">>, <<"d", "e", "f">>, <<"d", "e", "g">> }

(* Directories that may lie about empty and untracked. *)
SpareDirs == { <<"u">>, <<"d", "u">> }

(* Path::parent: None for the empty path. *)
Path_parent(p) == IF p = <<>> THEN None ELSE Some(SubSeq(p, 1, Len(p) - 1))

(* The directories above a path, the root left out. *)
DirsAbove(p) == { SubSeq(p, 1, n) : n \in 1..(Len(p) - 1) }

(* Whether d holds no entry. *)
HasNoEntry(tree, d) ==
    \A q \in tree.files \cup tree.dirs : Path_parent(q) # Some(d)

(* read_dir(d).map(|mut e| e.next().is_none()).unwrap_or(false): whether  *)
(* d can be read and is empty. The empty path cannot be read.             *)
read_dir_is_empty(tree, d) ==
    d # <<>> /\ d \in tree.dirs /\ HasNoEntry(tree, d)

(* The while loop after a file is removed. Its condition takes the parent *)
(* of filepath anew at every turn: the name bound by the pattern is in    *)
(* scope in the body only. A turn removes that directory if it is empty   *)
(* and not the directory the command was issued from.                     *)
RECURSIVE remove_empty_dirs(_, _, _)
remove_empty_dirs(tree, filepath, initial_dir) ==
    LET dirpath == Path_parent(filepath) IN
    IF dirpath = None THEN tree
    ELSE IF read_dir_is_empty(tree, dirpath[1])
    THEN IF initial_dir = dirpath[1] THEN tree
         ELSE remove_empty_dirs([tree EXCEPT !.dirs = @ \ { dirpath[1] }],
                                filepath, initial_dir)
    ELSE tree

(* One turn of the delete loop of checkout_commit, for a file the current *)
(* commit tracks and the target does not: the file is removed, then the   *)
(* directories left empty.                                                *)
delete_tracked(tree, filepath, initial_dir) ==
    IF filepath \notin tree.files
    THEN [ok |-> FALSE, tree |-> tree]
    ELSE [ok |-> TRUE,
          tree |-> remove_empty_dirs([tree EXCEPT !.files = @ \ { filepath }],
                                     filepath, initial_dir)]

(* A checkout, issued from initial_dir, to a commit that lacks the one    *)
(* file filepath of those the current commit tracks.                      *)
CheckoutDeleting(filepath, initial_dir) ==
    LET r == delete_tracked(wt, filepath, initial_dir) IN
    /\ last = Idle
    /\ initial_dir \in wt.dirs \cup { <<>> }
    /\ wt' = r.tree
    /\ last' = Outcome("checkout", <<filepath, initial_dir>>,
                       IF r.ok THEN "ok" ELSE "IoError", {})
    /\ UNCHANGED <<index, blobs, commits, refs, head>>

(* A working tree of some of the files, with the directories they lie in  *)
(* and some empty ones beside them.                                       *)
InitDirs ==
    \E F \in SUBSET TreeFiles, D \in SUBSET SpareDirs :
        /\ wt = [files |-> F,
                 dirs |-> UNION { DirsAbove(p) : p \in F \cup D } \cup D]
        /\ index = NoIndex
        /\ blobs = EmptyMap
        /\ commits = EmptyMap
        /\ refs = [b \in { "main" } |-> NoHash]
        /\ head = "main"
        /\ last = Idle

NextDirs ==
    \/ \E p \in TreeFiles, d \in { <<>> } \cup SpareDirs \cup UNION { DirsAbove(q) : q \in TreeFiles } :
          CheckoutDeleting(p, d)
    \/ Exit

SpecDirs == InitDirs /\ [][NextDirs]_vars

----------------------------------------------------------------------------
(* Properties. *)

(* The snapshot of the commit h, empty when h does not load. *)
Tracked(h) == get_commit_blobs(commits, h).blobs

(* Whether file p of the working tree holds, byte for byte, what was      *)
(* stored as the blob of the given digest.                                *)
HoldsVersion(p, digest) ==
    /\ p \in DOMAIN wt
    /\ digest \in DOMAIN blobs
    /\ wt[p] = Decompress(blobs[digest])

IsSwitch(o) == o.op \in {"switch", "switch -c"}

(* A switch to another, existing branch b whose commit and the current    *)
(* one both load: checkout_commit runs from src to dst.                   *)
ChecksOut(b) ==
    /\ last = Idle
    /\ IsSwitch(last')
    /\ last'.arg = b
    /\ b # head
    /\ b \in DOMAIN refs
    /\ Commit_load(commits, refs[head]).ok
    /\ Commit_load(commits, refs[b]).ok

(* C1: checkout safety. When the current commit and the destination track *)
(* a path p with different digests and the working copy of p differs from *)
(* both tracked versions, the switch ends in CheckoutConflict, names p,   *)
(* and leaves the working tree as it was.                                 *)
C1_CheckoutSafety ==
    [][\A b \in Branches, p \in Paths :
          ( /\ ChecksOut(b)
            /\ p \in DOMAIN Tracked(refs[head])
            /\ p \in DOMAIN Tracked(refs[b])
            /\ Tracked(refs[head])[p] # Tracked(refs[b])[p]
            /\ p \in DOMAIN wt
            /\ Tracked(refs[head])[p] \in DOMAIN blobs
            /\ Tracked(refs[b])[p] \in DOMAIN blobs
            /\ ~HoldsVersion(p, Tracked(refs[head])[p])
            /\ ~HoldsVersion(p, Tracked(refs[b])[p]) )
          => ( /\ last'.res = "CheckoutConflict"
               /\ p \in last'.conflicts
               /\ wt' = wt )]_vars

(* The paths with local changes, as checkout_commit lists them: the names *)
(* of the unstaged modifications, the staged additions and the staged     *)
(* removals.                                                              *)
LocalChanges ==
    LET ix == Index_load(index) IN
    { FirstWord(n, 1) : n \in unstaged_modifications(ix).names }
        \cup (DOMAIN ix.additions) \cup ix.removals

C3_NoLocalWorkLost ==
    [][\A b \in Branches, p \in Paths :
          ( /\ ChecksOut(b)
            /\ last'.res = "ok"
            /\ p \in DOMAIN wt
            /\ \/ p \notin DOMAIN Tracked(refs[head])
               \/ ~HoldsVersion(p, Tracked(refs[head])[p]) )
          => (p \in DOMAIN wt' /\ wt'[p] = wt[p])]_vars

(* C4: no path is at once staged for addition and staged for removal. *)
C4_IndexDisjoint ==
    \A p \in Paths :
        ~(p \in DOMAIN Index_load(index).additions
            /\ p \in Index_load(index).removals)

IsCommitOk(o) == o.op = "commit" /\ o.res = "ok"

(* C5: the commit snapshot. The mapping of a new commit is its parent's   *)
(* (empty for the first commit) without the paths staged for removal,     *)
(* then with every staged addition put in, under the digest it was staged *)
(* with.                                                                  *)
C5_CommitSnapshot ==
    [][IsCommitOk(last') =>
          LET ix == Index_load(index)
              base == IF refs[head] = NoHash THEN EmptyMap ELSE Tracked(refs[head])
              kept == (DOMAIN base) \ ix.removals
              new == Commit_load(commits', refs'[head])
          IN  /\ new.ok
              /\ DOMAIN new.commit.blobs = kept \cup DOMAIN ix.additions
              /\ \A p \in DOMAIN ix.additions :
                     new.commit.blobs[p] = ix.additions[p]
              /\ \A p \in kept \ DOMAIN ix.additions :
                     new.commit.blobs[p] = base[p]]_vars

(* A commit has recorded, for a file edited after it was staged, the      *)
(* digest it was staged with, and has dropped a path staged for removal.  *)
C5_Witness ==
    /\ IsCommitOk(last)
    /\ \E p \in DOMAIN Tracked(refs[head]) :
           p \in DOMAIN wt /\ Blob_new(wt[p]) # Tracked(refs[head])[p]
    /\ \E p \in Paths :
           /\ p \notin DOMAIN Tracked(refs[head])
           /\ p \in DOMAIN Tracked(Commit_load(commits, refs[head]).commit.parent)

(* C6: after a commit that succeeds the index is clear. *)
C6_IndexClearAfterCommit ==
    IsCommitOk(last) =>
        /\ DOMAIN Index_load(index).additions = {}
        /\ Index_load(index).removals = {}

(* A second commit has succeeded. *)
C6_Witness ==
    /\ IsCommitOk(last)
    /\ Commit_load(commits, refs[head]).commit.parent # NoHash

(* C7: a commit that succeeds on branch b stores exactly one new commit,  *)
(* whose parent is what ref[b] held and which has no merge parent, points *)
(* ref[b] at it, and leaves HEAD and the other refs alone.                *)
C7_CommitFrame ==
    [][IsCommitOk(last') =>
          \E h \in DOMAIN commits' :
              /\ h \notin DOMAIN commits
              /\ DOMAIN commits' = (DOMAIN commits) \cup {h}
              /\ \A g \in DOMAIN commits : commits'[g] = commits[g]
              /\ Commit_load(commits', h).commit.hash = h
              /\ Commit_load(commits', h).commit.parent = refs[head]
              /\ Commit_load(commits', h).commit.merge_parent = NoHash
              /\ refs'[head] = h
              /\ head' = head
              /\ DOMAIN refs' = DOMAIN refs
              /\ \A b \in (DOMAIN refs) \ {head} : refs'[b] = refs[b]]_vars

(* A commit has succeeded while another branch pointed elsewhere. *)
C7_Witness ==
    /\ IsCommitOk(last)
    /\ \E b \in DOMAIN refs :
           b # head /\ refs[b] # refs[head] /\ refs[b] # NoHash

(* C8: commit with a clear index is turned down as nothing to commit: no  *)
(* commit is stored, and HEAD, the refs and the index stay as they were.  *)
C8_NothingToCommit ==
    [][( /\ last = Idle
         /\ last'.op = "commit"
         /\ DOMAIN Index_load(index).additions = {}
         /\ Index_load(index).removals = {} )
       => ( /\ last'.res = "NothingToCommit"
            /\ commits' = commits
            /\ head' = head
            /\ refs' = refs
            /\ Index_load(index') = Index_load(index) )]_vars

(* Nothing to commit, on a branch that has commits. *)
C8_Witness ==
    /\ last.op = "commit"
    /\ last.res = "NothingToCommit"
    /\ refs[head] # NoHash

C10_AppendOnly ==
    [][\A h \in DOMAIN commits :
          /\ h \in DOMAIN commits'
          /\ commits'[h] = commits[h]
          /\ Commit_load(commits', h) = Commit_load(commits, h)]_vars

(* A later commit has computed the hash of a stored commit whose mapping  *)
(* is another: its save has failed and the stored one is as it was.       *)
C10_Witness ==
    /\ last.op = "commit"
    /\ last.res = "IoError"
    /\ refs[head] \in DOMAIN commits
    /\ \E p \in DOMAIN wt : p \notin DOMAIN Tracked(refs[head])

(* The commits from h back along the parents, h included. *)
RECURSIVE ChainOf(_)
ChainOf(h) ==
    IF h = NoHash \/ h \notin DOMAIN commits THEN <<>>
    ELSE <<h>> \o ChainOf(Commit_load(commits, h).commit.parent)

(* Whether every commit from h back is stored and has no merge parent. *)
RECURSIVE IsLinear(_)
IsLinear(h) ==
    \/ h = NoHash
    \/ /\ h \in DOMAIN commits
       /\ Commit_load(commits, h).commit.merge_parent = NoHash
       /\ IsLinear(Commit_load(commits, h).commit.parent)

(* C11: log ordering. On a linear chain of N >= 1 commits the log prints  *)
(* exactly N commits, the head commit first, each one after the first     *)
(* being the parent of the one printed before it.                         *)
C11_LogOrdering ==
    (last.op = "log" /\ refs[head] # NoHash /\ IsLinear(refs[head])) =>
        /\ ~last.err
        /\ Len(last.out) = Len(ChainOf(refs[head]))
        /\ Len(last.out) >= 1
        /\ last.out[1].hash = refs[head]
        /\ \A i \in 1..(Len(last.out) - 1) :
               last.out[i + 1].hash = last.out[i].parent

(* The log of a chain of two commits has been printed. *)
C11_Witness ==
    /\ last.op = "log"
    /\ IsLinear(refs[head])
    /\ Len(ChainOf(refs[head])) >= 2
    /\ Len(last.out) >= 2

(* C12: the blob round trip. A file holding b is written to the store;    *)
(* reading that blob into a destination leaves the destination holding    *)
(* exactly b and the stored object as it was.                             *)
C12_BlobRoundTrip ==
    [][\A d \in DOMAIN blobs, q \in Paths :
          (last = Idle /\ last'.op = "read_blob" /\ last'.arg = <<d, q>>) =>
              /\ q \in DOMAIN wt'
              /\ wt'[q] = Decompress(blobs[d])
              /\ blobs' = blobs]_vars

(* Whether the invocation now ending is command op on argument arg. *)
Runs(op, arg) == last = Idle /\ last'.op = op /\ last'.arg = arg

(* Whether two indexes agree on every path but p. *)
SameButFor(p, ix, jx) ==
    \A q \in Paths \ {p} :
        /\ (q \in DOMAIN ix.additions) = (q \in DOMAIN jx.additions)
        /\ q \in DOMAIN ix.additions => ix.additions[q] = jx.additions[q]
        /\ (q \in ix.removals) = (q \in jx.removals)

(* Whether two indexes hold the same additions and removals. *)
SameIndex(ix, jx) == ix.additions = jx.additions /\ ix.removals = jx.removals

(* C13: add(p) on a file that exists succeeds and leaves additions[p] the *)
(* digest of the file's content, p out of removals, the blob of that      *)
(* digest in the store and every other index entry as it was; when the    *)
(* file was staged already and has not changed, the index is as it was.   *)
C13_StagePostcondition ==
    [][\A p \in Paths :
          (Runs("add", p) /\ p \in DOMAIN wt) =>
              LET ix == Index_load(index)
                  jx == Index_load(index')
                  digest == Blob_new(wt[p])
              IN  /\ ~last'.err
                  /\ p \in DOMAIN jx.additions
                  /\ jx.additions[p] = digest
                  /\ p \notin jx.removals
                  /\ digest \in DOMAIN blobs'
                  /\ SameButFor(p, ix, jx)
                  /\ ( /\ p \in DOMAIN ix.additions
                       /\ ix.additions[p] = digest
                       /\ p \notin ix.removals ) => SameIndex(ix, jx)]_vars

(* A file staged while the other path is staged too, one for addition and *)
(* one for removal.                                                       *)
C13_Witness ==
    /\ last.op = "add"
    /\ ~last.err
    /\ \E q \in Paths \ {last.arg} : q \in Index_load(index).removals

(* C14: unstage(p), whether or not p is on disk, succeeds and leaves p in *)
(* neither additions nor removals and every other index entry as it was;  *)
(* when p was in neither already, the index is as it was.                 *)
C14_Unstage ==
    [][\A p \in Paths :
          Runs("unstage", p) =>
              LET ix == Index_load(index)
                  jx == Index_load(index')
              IN  /\ ~last'.err
                  /\ p \notin DOMAIN jx.additions
                  /\ p \notin jx.removals
                  /\ SameButFor(p, ix, jx)
                  /\ (p \notin DOMAIN ix.additions /\ p \notin ix.removals)
                         => SameIndex(ix, jx)]_vars

(* C15: rm without --cached of a file that is on disk and staged for      *)
(* addition fails with StagedChangesConflict; the file and the index stay *)
(* as they were.                                                          *)
C15_RmStagedConflict ==
    [][\A p \in Paths :
          ( /\ Runs("rm", p)
            /\ p \in DOMAIN wt
            /\ p \in DOMAIN Index_load(index).additions ) =>
              /\ last'.res = "StagedChangesConflict"
              /\ last'.err
              /\ wt' = wt
              /\ SameIndex(Index_load(index), Index_load(index'))]_vars

(* rm has been refused for a staged file that HEAD tracks. *)
C15_Witness ==
    /\ last.op = "rm"
    /\ last.res = "StagedChangesConflict"
    /\ is_tracked_by_head(last.arg)
    /\ last.arg \in DOMAIN wt

(* Whether the commit of the current branch tracks p. *)
HeadTracks(p) == p \in DOMAIN Tracked(refs[head])

(* C16: rm without --cached of a file that is on disk, tracked by HEAD    *)
(* and not staged deletes the file and puts its path among the removals;  *)
(* the commit made with the path among the removals does not track it,    *)
(* and every other tracked path that is not staged keeps its digest.      *)
C16_RmTracked ==
    [][\A p \in Paths :
          LET ix == Index_load(index)
              jx == Index_load(index')
          IN  /\ ( /\ Runs("rm", p)
                   /\ p \in DOMAIN wt
                   /\ HeadTracks(p)
                   /\ p \notin DOMAIN ix.additions ) =>
                     /\ ~last'.err
                     /\ wt' = Del(wt, p)
                     /\ p \in jx.removals
                     /\ p \notin DOMAIN jx.additions
                     /\ SameButFor(p, ix, jx)
              /\ ( /\ last = Idle
                   /\ IsCommitOk(last')
                   /\ HeadTracks(p)
                   /\ p \in ix.removals
                   /\ p \notin DOMAIN ix.additions ) =>
                     LET new == get_commit_blobs(commits', refs'[head]).blobs IN
                     /\ p \notin DOMAIN new
                     /\ \A q \in (DOMAIN Tracked(refs[head])) \ {p} :
                            (q \notin ix.removals /\ q \notin DOMAIN ix.additions) =>
                                /\ q \in DOMAIN new
                                /\ new[q] = Tracked(refs[head])[q]]_vars

(* After rm of a tracked file, a commit has dropped it and kept the other *)
(* path.                                                                  *)
C16_Witness ==
    /\ IsCommitOk(last)
    /\ LET old == Tracked(Commit_load(commits, refs[head]).commit.parent)
           new == Tracked(refs[head])
       IN  \E p \in DOMAIN old, q \in DOMAIN old :
               /\ p \notin DOMAIN new
               /\ p \notin DOMAIN wt
               /\ q \in DOMAIN new
               /\ new[q] = old[q]

(* C17: rm --cached of a file that is on disk and is staged or tracked by *)
(* HEAD succeeds, leaves the file as it is, takes its path out of the     *)
(* additions, and puts it among the removals exactly when HEAD tracks it. *)
C17_RmCached ==
    [][\A p \in Paths :
          LET ix == Index_load(index)
              jx == Index_load(index')
          IN  ( /\ Runs("rm --cached", p)
                /\ p \in DOMAIN wt
                /\ (p \in DOMAIN ix.additions \/ HeadTracks(p)) ) =>
                  /\ ~last'.err
                  /\ wt' = wt
                  /\ p \notin DOMAIN jx.additions
                  /\ HeadTracks(p) => p \in jx.removals
                  /\ ~HeadTracks(p) => (p \in jx.removals <=> p \in ix.removals)
                  /\ SameButFor(p, ix, jx)]_vars

(* A file that was only staged has been taken out of the index by rm     *)
(* --cached and is still on disk.                                         *)
C17_Witness ==
    /\ last.op = "rm --cached"
    /\ ~last.err
    /\ last.arg \in DOMAIN wt
    /\ ~HeadTracks(last.arg)
    /\ last.arg \notin DOMAIN Index_load(index).additions
    /\ last.arg \notin Index_load(index).removals
    /\ refs[head] # NoHash

(* C18: rm of a path that is not on disk. Neither staged nor tracked: it  *)
(* fails with NotTracked and changes nothing. Else tracked and not among  *)
(* the removals: the path is put among the removals. Else staged for      *)
(* addition: it is dropped from the additions. Else it fails with         *)
(* AlreadyStaged and the index is as it was.                              *)
C18_RmDeletedTable ==
    [][\A p \in Paths :
          LET ix == Index_load(index)
              jx == Index_load(index')
          IN  (last = Idle /\ last'.op \in {"rm", "rm --cached"}
                 /\ last'.arg = p /\ p \notin DOMAIN wt) =>
                /\ wt' = wt
                /\ IF p \notin DOMAIN ix.additions /\ ~HeadTracks(p)
                   THEN /\ last'.err /\ last'.res = "NotTracked"
                        /\ SameIndex(ix, jx)
                   ELSE IF HeadTracks(p) /\ p \notin ix.removals
                   THEN /\ ~last'.err
                        /\ jx.removals = ix.removals \cup {p}
                        /\ jx.additions = ix.additions
                   ELSE IF p \in DOMAIN ix.additions
                   THEN /\ ~last'.err
                        /\ jx.additions = Del(ix.additions, p)
                        /\ jx.removals = ix.removals
                   ELSE /\ last'.err /\ last'.res = "AlreadyStaged"
                        /\ SameIndex(ix, jx)
                        /\ p \in jx.removals]_vars

(* A second rm of a tracked file already removed has failed. *)
C18_Witness ==
    /\ last.op = "rm"
    /\ last.res = "AlreadyStaged"
    /\ last.arg \in Index_load(index).removals
    /\ HeadTracks(last.arg)

(* C19 as stated: rm, cached or not, of a file that is on disk and is     *)
(* neither staged nor tracked by HEAD fails with NotTracked; the file,    *)
(* the index and the blobs stay as they were.                             *)
C19_RmUntrackedFails ==
    [][\A p \in Paths :
          ( /\ last = Idle /\ last'.op \in {"rm", "rm --cached"} /\ last'.arg = p
            /\ p \in DOMAIN wt
            /\ p \notin DOMAIN Index_load(index).additions
            /\ ~HeadTracks(p) ) =>
              /\ last'.res = "NotTracked"
              /\ last'.err
              /\ wt' = wt
              /\ SameIndex(Index_load(index), Index_load(index'))
              /\ blobs' = blobs]_vars

(* C19 as the code has it: that rm reports NotTracked on standard output  *)
(* and returns success; the file, the index and the blobs stay as they    *)
(* were.                                                                  *)
C19_RmUntrackedNotice ==
    [][\A p \in Paths :
          ( /\ last = Idle /\ last'.op \in {"rm", "rm --cached"} /\ last'.arg = p
            /\ p \in DOMAIN wt
            /\ p \notin DOMAIN Index_load(index).additions
            /\ ~HeadTracks(p) ) =>
              /\ last'.res = "NotTracked"
              /\ ~last'.err
              /\ wt' = wt
              /\ SameIndex(Index_load(index), Index_load(index'))
              /\ blobs' = blobs]_vars

(* rm of an untracked file that is on disk, beside a staged one and a     *)
(* stored blob.                                                           *)
C19_Witness ==
    /\ last.op \in {"rm", "rm --cached"}
    /\ last.res = "NotTracked"
    /\ last.arg \in DOMAIN wt
    /\ DOMAIN Index_load(index).additions # {}
    /\ DOMAIN blobs # {}

(* The digests that the index stages or a stored commit tracks. *)
Referenced(ix, store) ==
    { ix.additions[p] : p \in DOMAIN ix.additions }
        \cup UNION { { get_commit_blobs(store, h).blobs[p] :
                          p \in DOMAIN get_commit_blobs(store, h).blobs } :
                        h \in DOMAIN store }

(* C20: blob store integrity. Every digest that the index stages or that  *)
(* a stored commit tracks has its object in the blob store; and a blob is *)
(* deleted by rm --cached alone, which deletes the object that was staged *)
(* for its path and only if no commit and no other staged path refers to  *)
(* it.                                                                    *)
C20_BlobIntegrity ==
    [][/\ Referenced(Index_load(index'), commits') \subseteq DOMAIN blobs'
       /\ \A d \in (DOMAIN blobs) \ (DOMAIN blobs') :
              LET ix == Index_load(index) IN
              /\ last'.op = "rm --cached"
              /\ last'.arg \in DOMAIN ix.additions
              /\ d = ix.additions[last'.arg]
              /\ d \notin Referenced([ix EXCEPT !.additions = Del(@, last'.arg)],
                                      commits)]_vars

(* Whether the invocation leaves everything on disk as it was. *)
NothingChanges == UNCHANGED <<wt, index, blobs, commits, refs, head>>

(* C21: branch create(name). When no ref is named name, it succeeds and   *)
(* makes ref[name] the hash the current branch points to (empty when      *)
(* there is no commit), HEAD, the other refs, the index and the working   *)
(* tree being as they were; when a ref is named name it fails with        *)
(* BranchExists and changes nothing.                                      *)
C21_BranchCreate ==
    [][\A b \in Branches :
          Runs("branch", b) =>
              IF b \notin DOMAIN refs
              THEN /\ ~last'.err
                   /\ DOMAIN refs' = (DOMAIN refs) \cup {b}
                   /\ refs'[b] = refs[head]
                   /\ \A c \in DOMAIN refs : refs'[c] = refs[c]
                   /\ UNCHANGED <<head, index, wt, blobs, commits>>
              ELSE /\ last'.err
                   /\ last'.res = "BranchExists"
                   /\ NothingChanges]_vars

(* A branch has been created on a commit. *)
C21_Witness ==
    /\ last.op = "branch"
    /\ ~last.err
    /\ last.arg # head
    /\ refs[last.arg] # NoHash
    /\ refs[last.arg] = refs[head]

(* C22: branch delete(name) fails with BranchCheckedOut when HEAD names   *)
(* name, with BranchNotFound when no ref is named name, changing nothing  *)
(* in either case; otherwise it removes ref[name] and nothing else: HEAD, *)
(* the other refs, the commits and the index are as they were.            *)
C22_BranchDelete ==
    [][\A b \in Branches :
          Runs("branch -D", b) =>
              IF b = head
              THEN /\ last'.err /\ last'.res = "BranchCheckedOut"
                   /\ NothingChanges
              ELSE IF b \notin DOMAIN refs
              THEN /\ last'.err /\ last'.res = "BranchNotFound"
                   /\ NothingChanges
              ELSE /\ ~last'.err
                   /\ refs' = Del(refs, b)
                   /\ UNCHANGED <<head, commits, index, wt, blobs>>]_vars

(* A branch that holds a commit of its own has been deleted; the commit   *)
(* is still stored.                                                       *)
C22_Witness ==
    /\ last.op = "branch -D"
    /\ ~last.err
    /\ last.arg \notin DOMAIN refs
    /\ \E h \in DOMAIN commits : \A b \in DOMAIN refs : refs[b] # h

(* A switch, with or without -c, to a branch b that is not the current    *)
(* one.                                                                   *)
SwitchesTo(b) == last = Idle /\ IsSwitch(last') /\ last'.arg = b /\ b # head

(* C23: switch(name, create) where name has no ref and is not the current *)
(* branch. Without create it fails as an invalid reference and HEAD, the  *)
(* refs, the index and the working tree are as they were; with create it  *)
(* succeeds, makes ref[name] the hash the current branch points to, sets  *)
(* HEAD to name and leaves the working tree and the index as they were.   *)
C23_SwitchNoRef ==
    [][\A b \in Branches :
          (SwitchesTo(b) /\ b \notin DOMAIN refs) =>
              /\ wt' = wt
              /\ SameIndex(Index_load(index), Index_load(index'))
              /\ IF last'.op = "switch"
                 THEN /\ last'.err
                      /\ last'.res = "InvalidReference"
                      /\ head' = head
                      /\ refs' = refs
                 ELSE /\ ~last'.err
                      /\ refs' = Put(refs, b, refs[head])
                      /\ head' = b]_vars

(* C24: switch without create to a branch that does not exist returns an  *)
(* error; switch with create to a branch that exists and is not the       *)
(* current one returns an error too, HEAD and the working tree being as   *)
(* they were.                                                             *)
C24_SwitchErrors ==
    [][\A b \in Branches :
          SwitchesTo(b) =>
              /\ (last'.op = "switch" /\ b \notin DOMAIN refs) => last'.err
              /\ (last'.op = "switch -c" /\ b \in DOMAIN refs) =>
                     /\ last'.err
                     /\ head' = head
                     /\ wt' = wt]_vars

(* C29: the write ordering of commit. The commit object is saved, then    *)
(* the ref of the current branch is written, then the index is cleared:   *)
(* the write of the ref names a commit object that is stored already, and *)
(* the index is cleared only once the ref names the new commit.           *)
C29_WriteOrdering ==
    [][last.res \in CommitSteps =>
          /\ refs' # refs =>
                 /\ last.out[1].hash \in DOMAIN commits
                 /\ refs'[head] = last.out[1].hash
                 /\ index' = index
          /\ commits' # commits =>
                 /\ refs = refs'
                 /\ refs[head] # last.out[1].hash \/ refs[head] \in DOMAIN commits
                 /\ index' = index
          /\ index' # index =>
                 /\ refs[head] = last.out[1].hash
                 /\ refs[head] \in DOMAIN commits]_vars

(* C30: ref integrity. Whatever invocations have run, commits that failed *)
(* among them, every ref is empty or the hash of a stored commit; and a   *)
(* commit that fails leaves the ref of the current branch and the index   *)
(* as they were before it.                                                *)
C30_RefIntegrity ==
    [][/\ \A b \in DOMAIN refs' :
              refs'[b] = NoHash \/ refs'[b] \in DOMAIN commits'
       /\ (last = Idle /\ last'.op = "commit" /\ last'.err) =>
              /\ refs'[head] = refs[head]
              /\ SameIndex(Index_load(index), Index_load(index'))]_vars

(* The commits reachable from h along parents and merge parents, h        *)
(* included, as far as they are stored.                                   *)
RECURSIVE Ancestors(_)
Ancestors(h) ==
    IF h = NoHash \/ h \notin DOMAIN commits THEN {}
    ELSE {h} \cup Ancestors(Commit_load(commits, h).commit.parent)
             \cup Ancestors(Commit_load(commits, h).commit.merge_parent)

(* Whether merge(b) is past its preconditions: b is another, existing     *)
(* branch, no tracked file has unstaged changes and nothing is staged.    *)
MergeProceeds(b) ==
    /\ Runs("merge", b)
    /\ b \in DOMAIN refs
    /\ b # head
    /\ unstaged_modifications(Index_load(index)).ok
    /\ unstaged_modifications(Index_load(index)).names = {}
    /\ DOMAIN Index_load(index).additions = {}
    /\ Index_load(index).removals = {}

(* Whether the histories of the current branch and of b have diverged:    *)
(* neither tip is an ancestor of the other.                               *)
Diverged(b) ==
    /\ refs[head] \notin Ancestors(refs[b])
    /\ refs[b] \notin Ancestors(refs[head])

(* The merge base of the current branch and b: the common ancestor that   *)
(* every common ancestor is an ancestor of.                               *)
BaseOf(b) ==
    LET common == Ancestors(refs[head]) \cap Ancestors(refs[b])
    IN  CHOOSE c \in common : common \subseteq Ancestors(c)

HasBase(b) ==
    LET common == Ancestors(refs[head]) \cap Ancestors(refs[b])
    IN  \E c \in common : common \subseteq Ancestors(c)

(* The paths the two sides have changed differently since the base. *)
ConflictingPaths(b) ==
    { p \in Paths :
        LET a == Version(Tracked(BaseOf(b)), p)
            h == Version(Tracked(refs[head]), p)
            t == Version(Tracked(refs[b]), p)
        IN  h # a /\ t # a /\ h # t }

(* Whether the working tree holds p in the version v: the file with the   *)
(* content stored under the digest, or no file when there is no version.  *)
HoldsIn(tree, p, v) ==
    IF v = None THEN p \notin DOMAIN tree
    ELSE p \in DOMAIN tree /\ tree[p] = Decompress(blobs[v[1]])

(* The version of p a merge without conflict is to end with: that of the  *)
(* side that has changed it since the base, the target's when HEAD has    *)
(* not.                                                                   *)
MergedVersion(b, p) ==
    LET a == Version(Tracked(BaseOf(b)), p)
        h == Version(Tracked(refs[head]), p)
        t == Version(Tracked(refs[b]), p)
    IN  IF h = a THEN t ELSE h

(* Whether the merge with b has brought path p of the working tree to    *)
(* the merged version: the file of a path taken from the target holds    *)
(* the target's version, and any other file is as it was.                 *)
MergedInTree(b, p) ==
    IF MergedVersion(b, p) = Version(Tracked(refs[head]), p)
    THEN (p \in DOMAIN wt') = (p \in DOMAIN wt)
            /\ (p \in DOMAIN wt => wt'[p] = wt[p])
    ELSE HoldsIn(wt', p, MergedVersion(b, p))

(* Whether sub occurs in s as a run of consecutive characters. *)
Occurs(sub, s) ==
    \E i \in 0..(Len(s) - Len(sub)) :
        \A k \in 1..Len(sub) : s[i + k] = sub[k]

(* Whether a file holds a conflict marker. *)
HasMarkers(c) ==
    \E i \in 1..Len(c) : c[i] \in { "<<<<<<< HEAD", "=======", ">>>>>>> " }

(* C25: merge checks its preconditions in this order and fails at the     *)
(* first that does not hold, changing no ref, commit, index entry or      *)
(* file: the target exists (BranchNotFound), it is not the current branch *)
(* (SelfMerge), no tracked file has unstaged changes (UnstagedChanges),   *)
(* nothing is staged (UncommittedChanges).                                *)
C25_MergePreconditions ==
    [][\A b \in MergeTargets :
          Runs("merge", b) =>
              LET ix == Index_load(index)
                  refused(res) ==
                      /\ last'.res = res
                      /\ last'.err
                      /\ UNCHANGED <<wt, blobs, commits, refs, head>>
                      /\ SameIndex(ix, Index_load(index'))
              IN  IF b \notin DOMAIN refs THEN refused("BranchNotFound")
                  ELSE IF b = head THEN refused("SelfMerge")
                  ELSE IF unstaged_modifications(ix).names # {}
                  THEN refused("UnstagedChanges")
                  ELSE IF DOMAIN ix.additions # {} \/ ix.removals # {}
                  THEN refused("UncommittedChanges")
                  ELSE last'.res \notin { "BranchNotFound", "SelfMerge",
                                          "UnstagedChanges", "UncommittedChanges" }]_vars

(* A merge refused for unstaged changes while changes were staged too. *)
C25_Witness ==
    /\ last.op = "merge"
    /\ last.res = "UnstagedChanges"
    /\ DOMAIN Index_load(index).additions # {}

(* C26: the fast-forward. When the tip of the current branch is an        *)
(* ancestor of the target's tip, merge points the current branch at the   *)
(* target's tip and leaves the working tree holding the target's          *)
(* snapshot; it stores no commit and no file holds a conflict marker.     *)
C26_FastForward ==
    [][\A b \in Branches :
          ( /\ MergeProceeds(b)
            /\ refs[head] # refs[b]
            /\ refs[head] \in Ancestors(refs[b]) ) =>
              LET ts == Tracked(refs[b])
                  hs == Tracked(refs[head])
              IN  /\ ~last'.err
                  /\ refs'[head] = refs[b]
                  /\ \A c \in (DOMAIN refs) \ {head} : refs'[c] = refs[c]
                  /\ head' = head
                  /\ \A p \in (DOMAIN ts) \cup (DOMAIN hs) :
                         HoldsIn(wt', p, Version(ts, p))
                  /\ commits' = commits
                  /\ \A p \in DOMAIN wt' : ~HasMarkers(wt'[p])]_vars

(* A branch has been fast-forwarded to a commit that changes a file and   *)
(* drops another.                                                         *)
C26_Witness ==
    /\ last.op = "merge"
    /\ last.res = "FastForward"
    /\ refs[head] = refs[last.arg]
    /\ LET old == Tracked(Commit_load(commits, refs[head]).commit.parent)
           new == Tracked(refs[head])
       IN  /\ \E p \in DOMAIN old : p \notin DOMAIN new /\ p \notin DOMAIN wt
           /\ \E p \in (DOMAIN old) \cap (DOMAIN new) :
                  old[p] # new[p] /\ HoldsVersion(p, new[p])

C31_SaveSucceeds ==
    [][( /\ last = Idle
         /\ last'.op = "commit"
         /\ ~is_clear(Index_load(index))
         /\ Commit_load(commits, refs[head]).ok
         /\ \A t \in Clock :
               CommitHash(refs[head], NoHash, last'.arg, t) \notin DOMAIN commits ) =>
           /\ ~last'.err
           /\ refs'[head] \in DOMAIN commits'
           /\ refs'[head] \notin DOMAIN commits]_vars

(* Whether every commit file of the store loads and names parents that    *)
(* are stored.                                                            *)
Whole ==
    \A h \in DOMAIN commits :
        /\ Commit_load(commits, h).ok
        /\ Commit_load(commits, h).commit.parent \in (DOMAIN commits) \cup { NoHash }
        /\ Commit_load(commits, h).commit.merge_parent \in (DOMAIN commits) \cup { NoHash }

(* A log that has run to its end. *)
LogDone == last.op = "log" /\ last.res = "ok"

(* C32: the ancestry walk emits no duplicates. Over a history of one      *)
(* merge whose two lines rejoin at a common ancestor, the walk from a     *)
(* commit emits every commit reachable from it, each exactly once.        *)
C32_NoDuplicates ==
    (LogDone /\ Whole) =>
        /\ { last.out[i].hash : i \in 1..Len(last.out) } = Ancestors(refs[head])
        /\ \A i, j \in 1..Len(last.out) :
               i # j => last.out[i].hash # last.out[j].hash

(* The timestamp of the stored commit h. *)
StampOf(h) == Commit_load(commits, h).commit.timestamp

(* C33: the order of the ancestry walk. When both frontiers are present   *)
(* and different, the walk moves on to the frontier commit of the larger  *)
(* timestamp and carries the other frontier forward unchanged; so, over a *)
(* history of one merge, the commits come out with timestamps that never  *)
(* increase, and none comes out before one of its own descendants, two    *)
(* frontier commits of equal timestamps included.                         *)
C33_WalkOrder ==
    /\ [][( /\ Whole
            /\ last.res = "at next"
            /\ last'.res = "at next"
            /\ last.arg.parent_hash # None
            /\ last.arg.merge_hash # None
            /\ last.arg.parent_hash # last.arg.merge_hash ) =>
              /\ last'.arg.current_hash \in { last.arg.parent_hash, last.arg.merge_hash }
              /\ StampOf(last'.arg.current_hash[1]) >= StampOf(last.arg.parent_hash[1])
              /\ StampOf(last'.arg.current_hash[1]) >= StampOf(last.arg.merge_hash[1])
              /\ IF last'.arg.current_hash = last.arg.parent_hash
                 THEN last'.arg.merge_hash = last.arg.merge_hash
                 ELSE last'.arg.parent_hash = last.arg.parent_hash]_vars
    /\ []((LogDone /\ Whole) =>
              \A i, j \in 1..Len(last.out) :
                  i < j =>
                      /\ last.out[i].timestamp >= last.out[j].timestamp
                      /\ last.out[i].hash \notin Ancestors(last.out[j].hash) \ { last.out[j].hash })

(* Whether the commit file of h is absent or malformed. *)
Unreadable(h) == h # NoHash /\ (h \notin DOMAIN commits \/ commits[h] = Malformed)

C35_NoVirtualCommit ==
    (last.op = "log" /\ ~last.err /\ IsLinear(refs[head])) =>
        /\ \A i \in 1..Len(last.out) : last.out[i].hash # NoHash
        /\ Len(last.out) = Len(ChainOf(refs[head]))
        /\ refs[head] = NoHash => last.out = <<>>

(* Whether the working tree is clean: nothing is staged, and the files on *)
(* disk are exactly those the HEAD commit tracks, each holding what was   *)
(* stored for it.                                                         *)
Clean ==
    /\ is_clear(Index_load(index))
    /\ DOMAIN wt = DOMAIN Tracked(refs[head])
    /\ \A p \in DOMAIN wt : HoldsVersion(p, Tracked(refs[head])[p])

(* C36: checkout from a clean state. A successful checkout from src to    *)
(* dst leaves the working tree with exactly the paths dst tracks, each    *)
(* holding the content of dst's blob for it: the paths src tracks and dst *)
(* does not are deleted, the paths of a different digest or new in dst    *)
(* are restored, the paths of equal digests are as they were.             *)
C36_CleanCheckout ==
    [][\A b \in Branches :
          (ChecksOut(b) /\ Clean /\ last'.res = "ok") =>
              /\ DOMAIN wt' = DOMAIN Tracked(refs[b])
              /\ \A p \in DOMAIN Tracked(refs[head]) \ DOMAIN Tracked(refs[b]) :
                     p \notin DOMAIN wt'
              /\ \A p \in DOMAIN Tracked(refs[b]) :
                     /\ Tracked(refs[b])[p] \in DOMAIN blobs
                     /\ wt'[p] = Decompress(blobs[Tracked(refs[b])[p]])
                     /\ ( p \in DOMAIN Tracked(refs[head])
                          /\ Tracked(refs[head])[p] = Tracked(refs[b])[p] ) =>
                            wt'[p] = wt[p]]_vars

(* A switch has ended well in a clean tree that lacks a file the branch   *)
(* left tracks and holds a file that the branch left does not track, or   *)
(* tracks in another version.                                             *)
C36_Witness ==
    /\ IsSwitch(last)
    /\ last.res = "ok"
    /\ Clean
    /\ \E b \in DOMAIN refs \ { head } :
          /\ \E p \in DOMAIN Tracked(refs[b]) : p \notin DOMAIN wt
          /\ \E p \in DOMAIN wt :
                 \/ p \notin DOMAIN Tracked(refs[b])
                 \/ Tracked(refs[b])[p] # Tracked(refs[head])[p]

(* C37: the cleanup of empty directories. After checkout deletes a file   *)
(* it removes every directory above the file that has become empty, up to *)
(* the repository root, the directory the command was issued from, or the *)
(* first directory that is not empty: no directory above the deleted file *)
(* is left empty, the one the command was issued from excepted, and       *)
(* nothing else is removed.                                               *)
C37_EmptyDirCleanup ==
    [][\A p \in TreeFiles, d \in wt.dirs \cup { <<>> } :
          ( /\ last = Idle
            /\ last'.op = "checkout"
            /\ last'.arg = <<p, d>>
            /\ last'.res = "ok" ) =>
              /\ wt'.files = wt.files \ { p }
              /\ wt'.dirs \subseteq wt.dirs
              /\ wt.dirs \ wt'.dirs \subseteq DirsAbove(p)
              /\ \A a \in DirsAbove(p) :
                     (a \in wt'.dirs /\ a # d) => ~HasNoEntry(wt', a)]_vars

(* C38: HEAD is valid. After init and whatever branches were created and  *)
(* deleted, whatever switches, with or without create, and commits were   *)
(* run, ended well or not, HEAD names a branch whose ref exists.          *)
C38_HeadValid == head \in DOMAIN refs

(* On a branch made by switch with create, past a commit that failed, the *)
(* delete of the current branch has been refused and the other branch is  *)
(* gone.                                                                  *)
C38_Witness ==
    /\ head = "dev"
    /\ last.op = "branch -D"
    /\ last.arg = "dev"
    /\ last.res = "BranchCheckedOut"
    /\ "main" \notin DOMAIN refs
    /\ refs[head] \notin DOMAIN commits \cup { NoHash }

(* C39: the frame of switch. A switch to another, existing branch that    *)
(* ends well leaves every ref, every commit, every blob and what is       *)
(* staged, for addition and for removal, as they were, and HEAD names the *)
(* branch; a switch that fails leaves HEAD as it was, HEAD being written  *)
(* only once the checkout is through; a switch to the current branch,     *)
(* with or without create, changes nothing.                               *)
C39_SwitchFrame ==
    [][\A b \in Branches :
          /\ (SwitchesTo(b) /\ b \in DOMAIN refs /\ ~last'.err) =>
                 /\ refs' = refs
                 /\ commits' = commits
                 /\ blobs' = blobs
                 /\ SameIndex(Index_load(index), Index_load(index'))
                 /\ head' = b
          /\ (SwitchesTo(b) /\ last'.err) => head' = head
          /\ (last = Idle /\ IsSwitch(last') /\ last'.arg = b /\ b = head) =>
                 /\ ~last'.err
                 /\ UNCHANGED <<wt, index, blobs, commits, refs, head>>]_vars

(* A switch to an existing branch at another commit has ended well with   *)
(* something staged.                                                      *)
C39_Witness ==
    /\ last.op = "switch"
    /\ last.res = "ok"
    /\ head = last.arg
    /\ ~is_clear(Index_load(index))
    /\ \E b \in DOMAIN refs : refs[b] # refs[head]

(* C40: the digest is faithful. The digest Blob::new computes is a        *)
(* function of all the bytes of the file: two files get the same digest   *)
(* only if they hold the same bytes, line terminators included; and a     *)
(* file passes for equal to a blob only if it holds exactly the bytes the *)
(* blob was made from.                                                    *)
C40_DigestFaithful ==
    /\ \A p, q \in DOMAIN wt :
           Blob_new(wt[p]) = Blob_new(wt[q]) => wt[p] = wt[q]
    /\ \A d \in DOMAIN blobs, q \in DOMAIN wt :
           hash_same_as_other_file(d, wt[q]) => wt[q] = Decompress(blobs[d])

====
